---------------------------- MODULE Spec2Model ----------------------------
(***************************************************************************)
(* Model of the dataset-preparation scripts of the repository:             *)
(*   src/jupyterhub_external_server/download_food101.py                    *)
(*   src/jupyterhub_external_server/download_food11.py                     *)
(*   src/jupyterhub_external_server/download_nutrition5k.py                *)
(*                                                                         *)
(* The filesystem is a set of canonical directory paths (sequences of      *)
(* names), a set of symlinks <<link path, target directory>>, the set of   *)
(* directories the process may not list and the set of directories it may  *)
(* not search.  A pathlib.Path is a sequence of names; Path.resolve() is   *)
(* Resolve.                                                                *)
(*                                                                         *)
(* Two specifications:                                                     *)
(*   SearchSpec / FairSearchSpec  find_images_meta, one loop iteration of  *)
(*                                iter_dirs_upto_depth per step            *)
(*   Spec                         main() of the three scripts              *)
(***************************************************************************)
EXTENDS Integers, Sequences, FiniteSets, TLC

VARIABLES
    dirs,         \* canonical paths of the directories that exist
    links,        \* symlinks: set of <<canonical path of the link, target directory>>
    unreadable,   \* directories without read permission: iterdir() raises
    unsearchable, \* directories without search permission: a stat() of a path
                  \* passing through one raises PermissionError
    pc,           \* position of the running function
    \* ---- find_images_meta / iter_dirs_upto_depth
    roots,        \* find_images_meta: roots
    max_depth,    \* find_images_meta: max_depth
    ri,           \* index of the root being traversed (for r in roots)
    queue,        \* iter_dirs_upto_depth: queue of <<path, depth>>
    seen,         \* iter_dirs_upto_depth: seen
    visited,      \* history: the paths yielded for the current root, in order
    found,        \* directory p whose p/images, p/meta were returned, or NoPath
    \* ---- main()
    script,       \* which of the three scripts runs
    force,        \* args.force
    dataset,      \* what the dataset reference holds (layout of the download)
    files,        \* archive files of the dataset
    archives,     \* images_archive, meta_archive, food101_archive
    images_dir,   \* main: images_dir
    meta_dir,     \* main: meta_dir
    outcome,      \* how the process ended
    exit_code,    \* process exit status
    dirs0,        \* history: dirs when the process started
    finStart,     \* history: dirs when finalization started
    s1,           \* history: result of the direct search on the candidates
    s2,           \* history: result of the search on out_dir after extraction
    extracted,    \* history: archives handed to extract_any, in order
    finDone,      \* history: labels whose finalization comparison has run
    copied        \* history: labels for which shutil.copytree was called

fsVars == <<dirs, links, unreadable, unsearchable>>
searchVars == <<roots, max_depth, ri, queue, seen, visited, found>>
mainVars == <<script, force, dataset, files, archives, images_dir, meta_dir,
              outcome, exit_code, dirs0, finStart, s1, s2, extracted, finDone, copied>>
vars == <<dirs, links, unreadable, unsearchable, pc, roots, max_depth, ri, queue,
          seen, visited,
          found, script, force, dataset, files, archives, images_dir, meta_dir,
          outcome, exit_code, dirs0, finStart, s1, s2, extracted, finDone, copied>>

-----------------------------------------------------------------------------
(* Bounds *)

\* search model: number of real directories below the root, root included
NumDirs == 5
\* search model, termination: number of real directories, root included
LiveNumDirs == 2
\* find_images_meta: the default of max_depth, the largest the scripts use;
\* the search model tries every max_depth up to it
MaxDepth == 3
\* main: max_depth of the search of the candidate roots
CandidateDepth == 3
\* main: max_depth of the search of out_dir after extraction
OutDepth == 2
\* main model: length of the directory chain of the downloaded dataset
MaxCacheNest == 6
\* main model: deepest level at which an archive unpacks its content
MaxNest == 3
\* main model: largest number of archive files in the dataset
MaxFiles == 3

-----------------------------------------------------------------------------
(* Names and paths *)

Labels == {"images", "meta"}
SubNames == {"food-101", "x"}
\* name of a symlink that leads out of the tree searched
OutLinkName == "lnk"
AllNames == Labels \cup SubNames \cup {OutLinkName}

NoPath == <<>>
CacheTop == <<"cache">>
OutDir == <<"out">>
\* a directory of another user, and a directory inside it
Vault == <<"vault">>
VaultDir == <<"vault", "x">>
\* the result of a function left by an uncaught PermissionError
Raised == <<"PermissionError">>

Front(s) == SubSeq(s, 1, Len(s) - 1)
Last(s) == s[Len(s)]
IsPrefix(p, q) == Len(p) <= Len(q) /\ SubSeq(q, 1, Len(p)) = p

IsLink(L, q) == \E l \in L : l[1] = q
LinkTarget(L, q) == (CHOOSE l \in L : l[1] = q)[2]

\* Path.resolve(): every symlink on the way replaced by its target
RECURSIVE Resolve(_, _)
Resolve(L, p) ==
    IF Len(p) <= 1 THEN p
    ELSE LET q == Append(Resolve(L, Front(p)), Last(p))
         IN  IF IsLink(L, q) THEN LinkTarget(L, q) ELSE q

\* Path.is_dir() (follows symlinks), when the stat() is permitted
IsDir(D, L, p) == Resolve(L, p) \in D

\* the stat() of p fails with EACCES: a directory on the way to p, through the
\* symlinks the lookup follows, may not be searched; is_dir() and exists() do
\* not catch this error
RECURSIVE Denied(_, _, _, _)
Denied(D, X, L, p) ==
    IF X = {} \/ Len(p) <= 1 THEN FALSE
    ELSE LET par == Resolve(L, Front(p))
             q == Append(par, Last(p))
         IN  \/ Denied(D, X, L, Front(p))
             \/ par \in D /\ par \in X
             \/ /\ par \in D /\ IsLink(L, q)
                /\ \E k \in 1..(Len(LinkTarget(L, q)) - 1) :
                      SubSeq(LinkTarget(L, q), 1, k) \in X

\* the orders in which the names S may be listed
Orders(S) ==
    {o \in [1..Cardinality(S) -> S] :
        \A i, j \in 1..Cardinality(S) : i # j => o[i] # o[j]}

\* the listing orders main() is run with: the dataset and the unpacked archives
\* are chains of directories, where the order of a listing decides nothing
ListingOrders ==
    {<<"food-101", "images", "meta", "x">>, <<"x", "meta", "images", "food-101">>}

\* names of the entries of directory p that are directories
SubDirNames(D, L, p) == {nm \in AllNames : IsDir(D, L, Append(p, nm))}

-----------------------------------------------------------------------------
(* iter_dirs_upto_depth and find_images_meta *)

\* queue[0] read without being removed
QueuePopKeep(q) == [cur |-> q[1][1], depth |-> q[1][2], rest |-> q]

\* cur, depth = queue.pop(0)
QueuePop(q) == [cur |-> q[1][1], depth |-> q[1][2], rest |-> Tail(q)]

\* if depth < max_depth
Descend(depth, maxd) == depth < maxd

\* try: for p in cur.iterdir(): if p.is_dir(): queue.append((p, depth+1)), the
\* entries listed in order ord; except Exception: pass, which ends the loop at
\* the first failure: iterdir() fails on a directory that may not be listed,
\* p.is_dir() on an entry whose stat() is denied, and the entries after it are
\* not looked at
RECURSIVE ChildEntries(_, _, _, _, _, _, _)
ChildEntries(D, U, X, L, cur, depth, ord) ==
    IF \/ ord = <<>>
       \/ Resolve(L, cur) \notin D \/ Resolve(L, cur) \in U
       \/ Denied(D, X, L, cur)
      THEN <<>>
    ELSE LET p == Append(cur, Head(ord))
         IN  IF Denied(D, X, L, p) THEN <<>>
             ELSE LET rest == ChildEntries(D, U, X, L, cur, depth, Tail(ord))
                  IN  IF IsDir(D, L, p) THEN <<<<p, depth + 1>>>> \o rest ELSE rest

\* img = p / "images"; met = p / "meta"; img.is_dir() and met.is_dir(): met is
\* looked at only when img is a directory, and either is_dir() raises
\* PermissionError when its stat() is denied
PairTest(D, X, L, p) ==
    LET img == Append(p, "images")
        met == Append(p, "meta")
    IN  IF Denied(D, X, L, img) THEN "raise"
        ELSE IF ~IsDir(D, L, img) THEN "none"
        ELSE IF Denied(D, X, L, met) THEN "raise"
        ELSE IF IsDir(D, L, met) THEN "pair"
        ELSE "none"

\* one candidate root: the loop of iter_dirs_upto_depth with the test of
\* find_images_meta applied to every yielded directory
RECURSIVE SearchRoot(_, _, _, _, _, _, _, _)
SearchRoot(D, U, X, L, q, sn, maxd, ord) ==
    IF q = <<>> THEN NoPath
    ELSE LET e == QueuePop(q)
             t == PairTest(D, X, L, e.cur)
         IN  IF e.cur \in sn THEN SearchRoot(D, U, X, L, e.rest, sn, maxd, ord)
             ELSE IF t = "raise" THEN Raised
             ELSE IF t = "pair" THEN e.cur
             ELSE SearchRoot(D, U, X, L,
                             IF Descend(e.depth, maxd)
                                 THEN e.rest \o ChildEntries(D, U, X, L, e.cur,
                                                              e.depth, ord)
                                 ELSE e.rest,
                             sn \cup {e.cur}, maxd, ord)

\* for r in roots: ... return img, met / return None, None; the result is the
\* directory holding the pair, NoPath, or Raised when the exception of the
\* test leaves the function
RECURSIVE FindImagesMeta(_, _, _, _, _, _, _)
FindImagesMeta(D, U, X, L, rs, maxd, ord) ==
    IF rs = <<>> THEN NoPath
    ELSE LET p == SearchRoot(D, U, X, L, <<<<Head(rs), 0>>>>, {}, maxd, ord)
         IN  IF p # NoPath THEN p ELSE FindImagesMeta(D, U, X, L, Tail(rs), maxd, ord)

-----------------------------------------------------------------------------
(* Archive files: names, classification, extraction *)

\* a file name is its stem, cut into pieces at the end of a possible prefix, and
\* its suffix; slot is the directory of the dataset chain that holds the file
NoFile == [slot |-> -1, stem |-> <<>>, ext |-> ""]

FileUniverse ==
    { [slot |-> 0, stem |-> <<"images">>, ext |-> ".zip"],
      [slot |-> 0, stem |-> <<"images", "-b">>, ext |-> ".tgz"],
      [slot |-> 1, stem |-> <<"IMAGES", "-v2">>, ext |-> ".TAR"],
      [slot |-> 0, stem |-> <<"Meta", "data">>, ext |-> ".tar.gz"],
      [slot |-> 0, stem |-> <<"food-101">>, ext |-> ".tar"],
      [slot |-> 1, stem |-> <<"Food-101", "-full">>, ext |-> ".TGZ"],
      [slot |-> 0, stem |-> <<"images">>, ext |-> ".txt"],
      [slot |-> 0, stem |-> <<"my-", "images">>, ext |-> ".zip"] }

\* str.lower() on the pieces used
Lower(tok) ==
    CASE tok = "IMAGES" -> "images"
      [] tok = "Meta" -> "meta"
      [] tok = "Food-101" -> "food-101"
      [] tok = ".TAR" -> ".tar"
      [] tok = ".TGZ" -> ".tgz"
      [] OTHER -> tok

\* exts = ('.tar.gz', '.tgz', '.tar', '.zip')
Exts == {".tar.gz", ".tgz", ".tar", ".zip"}

\* low.startswith(prefix) and low.endswith(exts)
IsArchiveOf(f, prefix) == Lower(f.stem[1]) = prefix /\ Lower(f.ext) \in Exts

\* the if / elif chain of the scan
Classify(f) ==
    IF IsArchiveOf(f, "images") THEN "images"
    ELSE IF IsArchiveOf(f, "meta") THEN "meta"
    ELSE IF IsArchiveOf(f, "food-101") THEN "food-101"
    ELSE "none"

\* what an archive unpacks, in the order of its members: the directories down
\* to level at below the destination, there an images entry and then a meta
\* entry ("link" is a symlink to <dest>/images), then the files.  An archive
\* that is not whole breaks off after cut of these entries: extractall has
\* unpacked them when it raises (cut = 0: nothing can be read at all).
Contents(imgs, mets) ==
    {c \in [at : 0..MaxNest, img : imgs, met : mets,
            cut : 0..(MaxNest + 2), whole : BOOLEAN] :
        /\ c.cut <= c.at + 2
        /\ c.whole => c.cut = c.at + 2}

\* the contents of an archive that is not there
NoContents == [at |-> 0, img |-> "none", met |-> "none", cut |-> 2, whole |-> TRUE]

CombinedContents == Contents({"dir"}, {"dir", "none"})
ImagesContents == Contents({"dir"}, {"none"})
MetaContents ==
    {c \in Contents({"none", "dir", "link"}, {"dir"}) : c.img = "link" => c.at >= 1}

\* the directory at level k of an unpacked archive
UnpackDir(dest, k) == dest \o [i \in 1..k |-> IF i = 1 THEN "food-101" ELSE "x"]

\* extract_any(archive, dest): dest.mkdir, then extractall, which leaves what it
\* unpacked when it raises partway, or ValueError when the suffix is not
\* supported
ExtractAny(D, L, f, dest, c) ==
    IF Lower(f.ext) \notin Exts
      THEN [ok |-> FALSE, dirs |-> D \cup {dest}, links |-> L]
      ELSE LET at == UnpackDir(dest, c.at)
               img == Append(at, "images")
               lvl == IF c.cut < c.at THEN c.cut ELSE c.at
               hasImg == c.cut >= c.at + 1
               hasMet == c.cut >= c.at + 2
           IN  [ok |-> c.whole,
                dirs |-> D \cup {UnpackDir(dest, k) : k \in 0..lvl}
                           \cup (IF hasImg /\ c.img = "dir" /\ ~IsLink(L, img)
                                   THEN {img} ELSE {})
                           \cup (IF hasMet /\ c.met = "dir"
                                   THEN {Append(at, "meta")} ELSE {}),
                links |-> L \cup (IF hasImg /\ c.img = "link" /\ img \notin D
                                    THEN {<<img, Append(dest, "images")>>} ELSE {})]

-----------------------------------------------------------------------------
(* The dataset a reference downloads to the cache *)

ChainNames(ds) ==
    [i \in 1..MaxCacheNest |-> IF i = 1 THEN ds.n1 ELSE IF i = 2 THEN ds.n2 ELSE "x"]

\* the directory at level k of the dataset
ChainDir(ds, k) == CacheTop \o SubSeq(ChainNames(ds), 1, k)

DatasetDirs(ds) ==
    {ChainDir(ds, k) : k \in 0..MaxCacheNest}
        \cup (IF ds.pairAt >= 0
                THEN {Append(ChainDir(ds, ds.pairAt), "images"),
                      Append(ChainDir(ds, ds.pairAt), "meta")}
                ELSE {})

Datasets == [n1 : SubNames, n2 : SubNames, pairAt : -1..MaxCacheNest]

FileDir(ds, f) == ChainDir(ds, f.slot)

-----------------------------------------------------------------------------
(* shutil *)

\* shutil.rmtree(path)
RmTree(D, path) == {p \in D : ~IsPrefix(path, p)}
RmTreeLinks(L, path) == {l \in L : ~IsPrefix(path, l[1])}

\* shutil.copytree(src, dst): the directories below src, below dst
CopyTree(D, L, src, dst) ==
    LET from == Resolve(L, src)
    IN  D \cup {dst \o SubSeq(p, Len(from) + 1, Len(p)) : p \in {q \in D : IsPrefix(from, q)}}

-----------------------------------------------------------------------------
(* main() *)

Scripts == {"food101", "food11", "nutrition5k"}

SearchIdle ==
    /\ roots = <<>> /\ max_depth = 0 /\ ri = 0 /\ queue = <<>>
    /\ seen = {} /\ visited = <<>> /\ found = NoPath

Init ==
    /\ script \in Scripts
    /\ force \in BOOLEAN
    /\ dataset \in Datasets
    /\ files \in {F \in SUBSET FileUniverse : Cardinality(F) <= MaxFiles}
    /\ script # "food101" => (files = {} /\ dataset.n1 = "x" /\ dataset.n2 = "x")
    \* the archive files vary in full in the datasets without extracted pair
    /\ dataset.pairAt >= 0 => Cardinality(files) <= 1
    /\ \E cached \in BOOLEAN, outExisted \in BOOLEAN :
          dirs = (IF cached THEN DatasetDirs(dataset) ELSE {})
                    \cup (IF outExisted THEN {OutDir, Append(OutDir, "x")} ELSE {})
    /\ links = {}
    \* the process may list and search every directory it meets
    /\ unreadable = {}
    /\ unsearchable = {}
    /\ dirs0 = dirs
    /\ archives = [images |-> NoFile, meta |-> NoFile, food101 |-> NoFile]
    /\ images_dir = NoPath /\ meta_dir = NoPath
    /\ outcome = "running" /\ exit_code = -1
    /\ finStart = {} /\ s1 = "n/a" /\ s2 = "n/a"
    /\ extracted = <<>> /\ finDone = {} /\ copied = {}
    /\ pc = "import"
    /\ SearchIdle

\* sys.exit(code), or an uncaught exception (status 1)
Exit(kind, code) ==
    /\ pc' = "exited"
    /\ outcome' = kind
    /\ exit_code' = code

\* try: import kagglehub / except: sys.exit(1)
ImportKagglehub ==
    /\ pc = "import"
    /\ \E installed \in BOOLEAN :
          IF installed
            THEN pc' = "download" /\ UNCHANGED <<outcome, exit_code>>
            ELSE Exit("env_error", 1)
    /\ UNCHANGED <<fsVars, searchVars, script, force, dataset, files, archives,
                   images_dir, meta_dir, dirs0, finStart, s1, s2, extracted,
                   finDone, copied>>

\* the download, with the output folder removed before it when --force is given
DownloadAfterRemoving ==
    /\ pc = "download"
    /\ \E path \in BOOLEAN :
          IF path
            THEN /\ dirs' = dirs \cup DatasetDirs(dataset)
                 /\ pc' = "prepare" /\ UNCHANGED <<outcome, exit_code>>
            ELSE /\ dirs' = IF force THEN RmTree(dirs, OutDir) ELSE dirs
                 /\ Exit("upstream_error", 2)
    /\ UNCHANGED <<links, unreadable, unsearchable, searchVars, script, force,
                   dataset, files, archives, images_dir, meta_dir, dirs0,
                   finStart, s1, s2, extracted, finDone, copied>>

\* cache_path = kagglehub.dataset_download(ref): the dataset is in the cache
\* afterwards (fetched unless it was there); if not cache_path: sys.exit(2)
Download ==
    /\ pc = "download"
    /\ \E path \in BOOLEAN :
          IF path
            THEN /\ dirs' = dirs \cup DatasetDirs(dataset)
                 /\ pc' = "prepare" /\ UNCHANGED <<outcome, exit_code>>
            ELSE /\ UNCHANGED dirs
                 /\ Exit("upstream_error", 2)
    /\ UNCHANGED <<links, unreadable, unsearchable, searchVars, script, force,
                   dataset, files, archives, images_dir, meta_dir, dirs0,
                   finStart, s1, s2, extracted, finDone, copied>>

\* download_food101: if out_dir.exists(): rmtree or skip; out_dir.mkdir(...)
PrepareOut ==
    /\ pc = "prepare"
    /\ script = "food101"
    /\ IF OutDir \in dirs /\ ~force
         THEN /\ Exit("skip", 0)
              /\ UNCHANGED <<dirs, links>>
         ELSE /\ dirs' = RmTree(dirs, OutDir) \cup {OutDir}
              /\ links' = RmTreeLinks(links, OutDir)
              /\ pc' = "search" /\ UNCHANGED <<outcome, exit_code>>
    /\ UNCHANGED <<unreadable, unsearchable, searchVars, script, force, dataset,
                   files, archives,
                   images_dir, meta_dir, dirs0, finStart, s1, s2, extracted,
                   finDone, copied>>

\* download_food11, download_nutrition5k: if out_dir.exists(): rmtree or skip
PrepareOutSimple ==
    /\ pc = "prepare"
    /\ script # "food101"
    /\ IF OutDir \in dirs /\ ~force
         THEN /\ Exit("skip", 0)
              /\ UNCHANGED <<dirs, links>>
         ELSE /\ dirs' = RmTree(dirs, OutDir)
              /\ links' = RmTreeLinks(links, OutDir)
              /\ pc' = "copy" /\ UNCHANGED <<outcome, exit_code>>
    /\ UNCHANGED <<unreadable, unsearchable, searchVars, script, force, dataset,
                   files, archives,
                   images_dir, meta_dir, dirs0, finStart, s1, s2, extracted,
                   finDone, copied>>

\* download_food11, download_nutrition5k:
\* shutil.copytree(cache_dir, out_dir, dirs_exist_ok=True); Done
CopyDataset ==
    /\ pc = "copy"
    /\ dirs' = CopyTree(dirs, links, CacheTop, OutDir)
    /\ Exit("done", 0)
    /\ UNCHANGED <<links, unreadable, unsearchable, searchVars, script, force,
                   dataset, files, archives, images_dir, meta_dir, dirs0,
                   finStart, s1, s2, extracted, finDone, copied>>

\* candidates = [cache_dir] + food-101 + food-101/food-101 when they exist
Candidates(D, L) ==
    LET c1 == Append(CacheTop, "food-101")
        c2 == Append(c1, "food-101")
    IN  <<CacheTop>> \o (IF IsDir(D, L, c1) THEN <<c1>> ELSE <<>>)
                     \o (IF IsDir(D, L, c2) THEN <<c2>> ELSE <<>>)

LabelDir(p, label) == IF p \in {NoPath, Raised} THEN NoPath ELSE Append(p, label)
Verdict(p) ==
    IF p = Raised THEN "raised" ELSE IF p = NoPath THEN "notfound" ELSE "found"

\* images_dir, meta_dir = find_images_meta(candidates, max_depth=3)
DirectSearch ==
    /\ pc = "search"
    /\ \E ord \in ListingOrders :
          LET p == FindImagesMeta(dirs, unreadable, unsearchable, links,
                                  Candidates(dirs, links), CandidateDepth, ord)
          IN  /\ images_dir' = LabelDir(p, "images")
              /\ meta_dir' = LabelDir(p, "meta")
              /\ s1' = Verdict(p)
              /\ finStart' = IF p \notin {NoPath, Raised} THEN dirs ELSE finStart
              /\ IF p = Raised
                   THEN Exit("crash", 1)
                   ELSE /\ pc' = IF p # NoPath THEN "fin_images" ELSE "scan"
                        /\ UNCHANGED <<outcome, exit_code>>
    /\ UNCHANGED <<fsVars, searchVars, script, force, dataset, files, archives,
                   dirs0, s2, extracted, finDone, copied>>

\* the files of class cls among the children of the candidate roots that may be
\* the last one scanned: any file of the class in the last root that has one
LastScanned(cands, cls) ==
    LET has == {i \in 1..Len(cands) :
                  \E f \in files : FileDir(dataset, f) = cands[i] /\ Classify(f) = cls}
    IN  IF has = {} THEN {NoFile}
        ELSE LET last == CHOOSE i \in has : \A j \in has : j <= i
             IN  {f \in files : FileDir(dataset, f) = cands[last] /\ Classify(f) = cls}

\* for root in candidates: for p in root.glob("*"): classify, keep
ScanArchives ==
    /\ pc = "scan"
    /\ \E fi \in LastScanned(Candidates(dirs, links), "images"),
          fm \in LastScanned(Candidates(dirs, links), "meta"),
          fc \in LastScanned(Candidates(dirs, links), "food-101") :
          archives' = [images |-> fi, meta |-> fm, food101 |-> fc]
    /\ pc' = "extract"
    /\ UNCHANGED <<fsVars, searchVars, script, force, dataset, files, images_dir,
                   meta_dir, outcome, exit_code, dirs0, finStart, s1, s2, extracted,
                   finDone, copied>>

\* the combined archive is used only when no other archive was found
UseMonolithicWhenAlone(a) == a.food101 # NoFile /\ a.images = NoFile /\ a.meta = NoFile

\* if food101_archive:
UseMonolithic(a) == a.food101 # NoFile

\* find_images_meta([out_dir], max_depth=2) after the extraction
ReSearch(D, L) ==
    \E ord \in ListingOrders :
       LET p == FindImagesMeta(D, unreadable, unsearchable, L, <<OutDir>>,
                               OutDepth, ord)
       IN  /\ images_dir' = LabelDir(p, "images")
           /\ meta_dir' = LabelDir(p, "meta")
           /\ s2' = Verdict(p)
           /\ IF p = Raised
                THEN Exit("crash", 1)
                ELSE pc' = "check" /\ UNCHANGED <<outcome, exit_code>>

\* extract_any(food101_archive, out_dir); search again in out_dir
ExtractMonolithic ==
    /\ pc = "extract"
    /\ UseMonolithic(archives)
    /\ \E c \in CombinedContents :
          LET r == ExtractAny(dirs, links, archives.food101, OutDir, c)
          IN  /\ dirs' = r.dirs
              /\ links' = r.links
              /\ extracted' = Append(extracted, archives.food101)
              /\ IF r.ok THEN ReSearch(r.dirs, r.links)
                         ELSE /\ Exit("crash", 1)
                              /\ UNCHANGED <<images_dir, meta_dir, s2>>
    /\ UNCHANGED <<unreadable, unsearchable, searchVars, script, force, dataset,
                   files, archives,
                   dirs0, finStart, s1, finDone, copied>>

\* if images_archive: extract_any(...); if meta_archive: extract_any(...);
\* search again in out_dir
ExtractSeparate ==
    /\ pc = "extract"
    /\ ~UseMonolithic(archives)
    /\ \E ci \in (IF archives.images # NoFile THEN ImagesContents ELSE {NoContents}) :
        LET r0 == [ok |-> TRUE, dirs |-> dirs, links |-> links]
            r1 == IF archives.images # NoFile
                    THEN ExtractAny(dirs, links, archives.images, OutDir, ci) ELSE r0
        IN
        \E cm \in (IF r1.ok /\ archives.meta # NoFile THEN MetaContents
                                                      ELSE {NoContents}) :
          LET r2 == IF r1.ok /\ archives.meta # NoFile
                      THEN ExtractAny(r1.dirs, r1.links, archives.meta, OutDir, cm) ELSE r1
          IN  /\ dirs' = r2.dirs
              /\ links' = r2.links
              /\ extracted' = extracted
                    \o (IF archives.images # NoFile THEN <<archives.images>> ELSE <<>>)
                    \o (IF r1.ok /\ archives.meta # NoFile THEN <<archives.meta>> ELSE <<>>)
              /\ IF r2.ok THEN ReSearch(r2.dirs, r2.links)
                          ELSE /\ Exit("crash", 1)
                               /\ UNCHANGED <<images_dir, meta_dir, s2>>
    /\ UNCHANGED <<unreadable, unsearchable, searchVars, script, force, dataset,
                   files, archives,
                   dirs0, finStart, s1, finDone, copied>>

\* the check after extraction left out
CheckLayoutMissing ==
    /\ pc = "check"
    /\ pc' = "fin_images"
    /\ finStart' = dirs
    /\ UNCHANGED <<outcome, exit_code>>
    /\ UNCHANGED <<fsVars, searchVars, script, force, dataset, files, archives,
                   images_dir, meta_dir, dirs0, s1, s2, extracted, finDone, copied>>

\* if not (images_dir and meta_dir): sys.exit(3)
CheckLayout ==
    /\ pc = "check"
    /\ IF ~(images_dir # NoPath /\ meta_dir # NoPath)
         THEN /\ Exit("layout_error", 3)
              /\ UNCHANGED finStart
         ELSE /\ pc' = "fin_images"
              /\ finStart' = dirs
              /\ UNCHANGED <<outcome, exit_code>>
    /\ UNCHANGED <<fsVars, searchVars, script, force, dataset, files, archives,
                   images_dir, meta_dir, dirs0, s1, s2, extracted, finDone, copied>>

\* the comparison of finalization on the paths as written
AlreadyAtUnresolved(L, src, dst) == src = dst

\* not (src.resolve() != dst.resolve())
AlreadyAt(L, src, dst) == Resolve(L, src) = Resolve(L, dst)

\* one label of the finalization: copytree(src, <out>/<label>) unless already
\* there; copytree raises FileExistsError when the destination exists
Finalize(label, src, nextpc) ==
    LET dst == Append(OutDir, label)
    IN  /\ finDone' = finDone \cup {label}
        /\ IF AlreadyAt(links, src, dst)
             THEN /\ pc' = nextpc
                  /\ UNCHANGED <<dirs, copied, outcome, exit_code>>
             ELSE /\ copied' = copied \cup {label}
                  /\ IF IsDir(dirs, links, dst) \/ ~IsDir(dirs, links, src)
                       THEN /\ Exit("crash", 1)
                            /\ UNCHANGED dirs
                       ELSE /\ dirs' = CopyTree(dirs, links, src, dst)
                            /\ pc' = nextpc
                            /\ UNCHANGED <<outcome, exit_code>>

\* if images_dir.resolve() != final_images.resolve(): copytree(...)
FinalizeImages ==
    /\ pc = "fin_images"
    /\ Finalize("images", images_dir, "fin_meta")
    /\ UNCHANGED <<links, unreadable, unsearchable, searchVars, script, force,
                   dataset, files, archives, images_dir, meta_dir, dirs0,
                   finStart, s1, s2, extracted>>

\* if meta_dir.resolve() != final_meta.resolve(): copytree(...)
FinalizeMeta ==
    /\ pc = "fin_meta"
    /\ Finalize("meta", meta_dir, "verify")
    /\ UNCHANGED <<links, unreadable, unsearchable, searchVars, script, force,
                   dataset, files, archives, images_dir, meta_dir, dirs0,
                   finStart, s1, s2, extracted>>

\* 3) Verify: the summary is printed; the process ends with status 0
Verify ==
    /\ pc = "verify"
    /\ Exit("done", 0)
    /\ UNCHANGED <<fsVars, searchVars, script, force, dataset, files, archives,
                   images_dir, meta_dir, dirs0, finStart, s1, s2, extracted,
                   finDone, copied>>

Next ==
    \/ ImportKagglehub
    \/ Download
    \/ PrepareOut
    \/ PrepareOutSimple
    \/ CopyDataset
    \/ DirectSearch
    \/ ScanArchives
    \/ ExtractMonolithic
    \/ ExtractSeparate
    \/ CheckLayout
    \/ FinalizeImages
    \/ FinalizeMeta
    \/ Verify

Spec == Init /\ [][Next]_vars

-----------------------------------------------------------------------------
(* The search on its own: find_images_meta(roots, max_depth) over a directory *)
(* tree with symlinks and directories that may not be listed or searched      *)

\* the directory trees below CacheTop with at most n real directories
RECURSIVE Trees(_)
Trees(n) ==
    IF n <= 1 THEN {{CacheTop}}
    ELSE LET T == Trees(n - 1)
         IN  T \cup UNION {{t \cup {Append(p, nm)} : p \in t, nm \in SubNames} : t \in T}

\* a symlink in directory p, named nm, to directory tg of the tree
LinkChoices(t) ==
    {l \in {<<Append(p, nm), tg>> : p \in t, nm \in SubNames, tg \in t} : l[1] \notin t}

AtMostOne(S) == {{}} \cup {{x} : x \in S}

\* a directory with restricted permissions: not listable (-wx), not searchable
\* (r--), or neither (---)
Modes == {"-wx", "r--", "---"}

RootChoices(D, L) ==
    LET sub == Append(CacheTop, "food-101")
    IN  {<<CacheTop>>} \cup
        (IF IsDir(D, L, sub) THEN {<<CacheTop, sub>>, <<sub, CacheTop>>} ELSE {})

\* values of the variables of main() while only the search runs
MainIdle ==
    /\ script = "none" /\ force = FALSE /\ dataset = <<>> /\ files = {}
    /\ archives = <<>> /\ images_dir = NoPath /\ meta_dir = NoPath
    /\ outcome = "running" /\ exit_code = -1 /\ dirs0 = {} /\ finStart = {}
    /\ s1 = "n/a" /\ s2 = "n/a" /\ extracted = <<>> /\ finDone = {} /\ copied = {}

SearchInitOver(n) ==
    /\ \E t \in Trees(n) :
         \E pairs \in {P \in SUBSET t : Cardinality(P) <= 2} :
           \E io \in AtMostOne(t \ pairs), ln \in AtMostOne(LinkChoices(t)),
              ur \in AtMostOne(t), mode \in Modes, ol \in AtMostOne(t) :
             /\ Cardinality(io) + Cardinality(ln) + Cardinality(ur)
                   + Cardinality(ol) <= 1
             /\ ur = {} => mode = "---"
             /\ dirs = t \cup {Append(p, "images") : p \in pairs \cup io}
                         \cup {Append(p, "meta") : p \in pairs}
                         \cup (IF ol = {} THEN {} ELSE {Vault, VaultDir})
             \* ol: a symlink in a directory of the tree to a directory of
             \* another user, which the process may neither list nor search
             /\ links = ln \cup {<<Append(p, OutLinkName), VaultDir>> : p \in ol}
             /\ unreadable = (IF mode \in {"-wx", "---"} THEN ur ELSE {})
                                \cup (IF ol = {} THEN {} ELSE {Vault})
             /\ unsearchable = (IF mode \in {"r--", "---"} THEN ur ELSE {})
                                  \cup (IF ol = {} THEN {} ELSE {Vault})
    /\ roots \in RootChoices(dirs, links)
    /\ max_depth \in 0..MaxDepth
    /\ ri = 1
    /\ queue = <<<<roots[1], 0>>>>
    /\ seen = {}
    /\ visited = <<>>
    /\ found = NoPath
    /\ pc = "searching"
    /\ MainIdle

SearchInit == SearchInitOver(NumDirs)

\* the same, over the smaller trees on which termination is verified
LiveSearchInit == SearchInitOver(LiveNumDirs)

\* one iteration of "while queue:" in iter_dirs_upto_depth, with the body of the
\* for loop of find_images_meta run on the yielded directory
BfsStep ==
    /\ pc = "searching"
    /\ queue # <<>>
    /\ LET e == QueuePop(queue)
       IN  IF e.cur \in seen
             THEN /\ queue' = e.rest
                  /\ UNCHANGED <<seen, visited, found, pc>>
             ELSE /\ seen' = seen \cup {e.cur}
                  /\ visited' = Append(visited, e.cur)
                  /\ LET t == PairTest(dirs, unsearchable, links, e.cur)
                     IN  IF t = "raise"
                           THEN /\ pc' = "raised"
                                /\ queue' = e.rest
                                /\ UNCHANGED found
                         ELSE IF t = "pair"
                           THEN /\ found' = e.cur
                                /\ pc' = "returned"
                                /\ queue' = e.rest
                           ELSE /\ \E ord \in Orders(SubDirNames(dirs, links, e.cur)) :
                                     queue' = IF Descend(e.depth, max_depth)
                                                THEN e.rest \o
                                                     ChildEntries(dirs, unreadable,
                                                         unsearchable, links, e.cur,
                                                         e.depth, ord)
                                                ELSE e.rest
                                /\ UNCHANGED <<found, pc>>
    /\ UNCHANGED <<fsVars, roots, max_depth, ri, mainVars>>

\* the generator of one root is exhausted: the next r of "for r in roots", or
\* "return None, None"
NextRoot ==
    /\ pc = "searching"
    /\ queue = <<>>
    /\ IF ri < Len(roots)
         THEN /\ ri' = ri + 1
              /\ queue' = <<<<roots[ri + 1], 0>>>>
              /\ seen' = {}
              /\ visited' = <<>>
              /\ UNCHANGED <<found, pc>>
         ELSE /\ pc' = "returned"
              /\ found' = NoPath
              /\ UNCHANGED <<ri, queue, seen, visited>>
    /\ UNCHANGED <<fsVars, roots, max_depth, mainVars>>

SearchNext == BfsStep \/ NextRoot

SearchSpec == SearchInit /\ [][SearchNext]_vars

\* the loop is sequential code: an iteration that can run does run
FairSearchSpec == LiveSearchInit /\ [][SearchNext]_vars /\ WF_vars(SearchNext)

-----------------------------------------------------------------------------
(* Statements about the search *)

\* the paths k listing steps below r, through directories that can be listed
RECURSIVE Level(_, _, _, _, _)
Level(D, U, L, r, k) ==
    IF k = 0 THEN {r}
    ELSE UNION {{Append(p, nm) : nm \in {m \in AllNames : IsDir(D, L, Append(p, m))}} :
                  p \in {q \in Level(D, U, L, r, k - 1) : Resolve(L, q) \in D \ U}}

Depth(r, p) == Len(p) - Len(r)

\* directory p has both an images and a meta subdirectory
BothLabels(p) ==
    /\ Resolve(links, Append(p, "images")) \in dirs
    /\ Resolve(links, Append(p, "meta")) \in dirs

\* position (root j, depth k) comes before position (root j2, depth k2)
Before(j, k, j2, k2) == j < j2 \/ (j = j2 /\ k < k2)

\* the directory d is met at depth k of the traversal of root j
MetAt(j, k, d) ==
    \E q \in Level(dirs, unreadable, links, roots[j], k) : Resolve(links, q) = d

\* C6: find_images_meta returns the pair of the first directory, in the order
\* (roots as given, breadth-first within a root), that holds both labels, and
\* stops there: the directory returned holds both labels and is the last one
\* visited, and every other directory holding both labels comes, in that order,
\* no earlier than the directory returned does (at the same depth of the same
\* root the listing order decides).
C6_FirstMatchInBfsOrder ==
    (pc = "returned" /\ found # NoPath) =>
        /\ BothLabels(found)
        /\ IsPrefix(roots[ri], found)
        /\ Last(visited) = found
        /\ \A j \in 1..ri : \A k \in 0..max_depth :
              \A q \in Level(dirs, unreadable, links, roots[j], k) :
                 (BothLabels(q) /\ Resolve(links, q) # Resolve(links, found)) =>
                    \E j2 \in 1..ri : \E k2 \in 0..max_depth :
                       /\ ~Before(j, k, j2, k2)
                       /\ MetAt(j2, k2, Resolve(links, found))

\* C7: a pair returned lies in a directory at depth <= max_depth below a
\* candidate root; when no directory within max_depth of any root holds both
\* labels the search does not raise and its result is "not found"; when a
\* directory that the traversal can reach within max_depth does, the search
\* ends with a pair.
C7_DepthBound ==
    /\ (pc = "returned" /\ found # NoPath) =>
           \E i \in 1..Len(roots) :
              /\ IsPrefix(roots[i], found)
              /\ Depth(roots[i], found) <= max_depth
              /\ found \in Level(dirs, {}, links, roots[i], Depth(roots[i], found))
    /\ (\A i \in 1..Len(roots) : \A k \in 0..max_depth :
           \A q \in Level(dirs, {}, links, roots[i], k) : ~BothLabels(q))
          => /\ pc # "raised"
             /\ pc = "returned" => found = NoPath
    /\ (\E i \in 1..Len(roots) : \E k \in 0..max_depth :
           \E q \in Level(dirs, unreadable, links, roots[i], k) : BothLabels(q))
          => (pc \in {"returned", "raised"} => found # NoPath)

\* C8: within the traversal of one root no directory is visited twice, two
\* paths being the same directory when they resolve to the same path.
C8_VisitedOncePerResolvedPath ==
    \A i, j \in 1..Len(visited) :
        i # j => Resolve(links, visited[i]) # Resolve(links, visited[j])

\* C9: the search terminates: it returns, or an exception leaves it.
C9_SearchTerminates == <>(pc \in {"returned", "raised"})

\* the search ended after walking through a symlink that points to an ancestor
C9_Witness ==
    /\ pc = "returned"
    /\ \E l \in links : IsPrefix(l[2], l[1]) /\ \E i \in 1..Len(visited) :
          IsPrefix(l[1], visited[i]) /\ Len(visited[i]) > Len(l[1])

-----------------------------------------------------------------------------
(* Statements about main() *)

\* the entries at the top level of the output directory
OutTopLevel == {p \in dirs \cup {l[1] : l \in links} : Len(p) = 2 /\ IsPrefix(OutDir, p)}

\* the output path and what is below it
OutTree(D) == {p \in D : IsPrefix(OutDir, p)}

\* no directory within depth d of the roots rs holds both labels
NoPairWithin(rs, d) ==
    \A i \in 1..Len(rs) : \A k \in 0..d :
        \A q \in Level(dirs, {}, links, rs[i], k) : ~BothLabels(q)

\* C1: after a successful run of the Food-101 downloader the output directory
\* holds exactly the two subdirectories images and meta at its top level.
C1_ExactlyImagesAndMeta ==
    (pc = "exited" /\ outcome = "done" /\ script = "food101") =>
        OutTopLevel = {Append(OutDir, "images"), Append(OutDir, "meta")}

\* C2: with the output path present and no --force, every script ends with the
\* skip status 0 and has changed nothing in the filesystem.
C2_SkipMutatesNothing ==
    (pc = "exited" /\ OutDir \in dirs0 /\ ~force) =>
        /\ outcome = "skip" /\ exit_code = 0
        /\ dirs = dirs0 /\ links = {}

\* C3: a run that ends with the environment error (status 1) has written
\* nothing, and one that ends with the upstream data error (status 2) leaves the
\* output path as it was, whatever --force says.
C3_ErrorsWriteNothing ==
    /\ outcome = "env_error" => (exit_code = 1 /\ dirs = dirs0 /\ links = {})
    /\ outcome = "upstream_error" =>
          (exit_code = 2 /\ OutTree(dirs) = OutTree(dirs0) /\ links = {})

\* the download returned no path in a run with --force and an output directory
\* that held something
C3_Witness ==
    /\ pc = "exited" /\ outcome = "upstream_error" /\ force
    /\ Append(OutDir, "x") \in dirs0

\* C4: the Food-101 downloader ends with status 3 exactly when the direct search
\* (depth 3, candidate roots) found nothing and the search of the output
\* directory (depth 2) after the extraction found nothing either; such a run
\* never reaches finalization.  Each search is judged on the filesystem it
\* returned on.
C4_ExitThreeIffBothSearchesFail ==
    script = "food101" =>
        /\ (pc \in {"scan", "fin_images"} /\ s2 = "n/a") =>
              /\ s1 \in {"found", "notfound"}
              /\ s1 = "notfound" <=> NoPairWithin(Candidates(dirs, links), 3)
        /\ pc = "check" =>
              /\ s2 \in {"found", "notfound"}
              /\ s2 = "notfound" <=> NoPairWithin(<<OutDir>>, 2)
        /\ pc = "exited" => (exit_code = 3 <=> (s1 = "notfound" /\ s2 = "notfound"))
        /\ exit_code = 3 =>
              /\ NoPairWithin(<<OutDir>>, 2)
              /\ finDone = {} /\ copied = {} /\ finStart = {}

\* status 3 after an archive was unpacked too deep for the depth-2 search
C4_Witness ==
    /\ pc = "exited" /\ exit_code = 3 /\ Len(extracted) > 0
    /\ \E q \in Level(dirs, {}, links, OutDir, 3) : BothLabels(q)

\* the archive files of a kind among the children of the candidate roots
ArchivesOfKind(prefix) ==
    {f \in files :
        /\ \E i \in 1..Len(Candidates(dirs, links)) :
              FileDir(dataset, f) = Candidates(dirs, links)[i]
        /\ Lower(f.stem[1]) = prefix
        /\ Lower(f.ext) \in {".tar.gz", ".tgz", ".tar", ".zip"}}

\* C5: only archives found among the children of the candidate roots are
\* extracted; when a combined archive is present no other archive is, and it is
\* the one extracted by the time the direct search is re-run on the output
\* directory; otherwise, by that time, one archive of each per-category kind
\* that is present was extracted, and nothing else.
C5_CombinedArchiveExcludesOthers ==
    (extracted # <<>> \/ s2 # "n/a") =>
        /\ \A i \in 1..Len(extracted) :
              extracted[i] \in ArchivesOfKind("food-101") \cup ArchivesOfKind("images")
                                  \cup ArchivesOfKind("meta")
        /\ ArchivesOfKind("food-101") # {} =>
              /\ Len(extracted) <= 1
              /\ \A i \in 1..Len(extracted) :
                    extracted[i] \in ArchivesOfKind("food-101")
        /\ s2 # "n/a" =>
              IF ArchivesOfKind("food-101") # {}
                THEN Len(extracted) = 1
                ELSE \A kind \in {"images", "meta"} :
                        Cardinality({i \in 1..Len(extracted) :
                                        extracted[i] \in ArchivesOfKind(kind)})
                           = (IF ArchivesOfKind(kind) = {} THEN 0 ELSE 1)

\* a combined archive was extracted alone although an images and a meta archive
\* lay beside it, and the pair was still not found
C5_Witness ==
    /\ s2 = "notfound"
    /\ ArchivesOfKind("food-101") # {} /\ ArchivesOfKind("images") # {}
    /\ ArchivesOfKind("meta") # {}
    /\ Len(extracted) = 1

\* the directory finalization copies for a label
ResolvedSource(label) == IF label = "images" THEN images_dir ELSE meta_dir
Coincides(label) ==
    Resolve(links, ResolvedSource(label)) = Resolve(links, Append(OutDir, label))

\* C10: for each label whose finalization step has run, copytree was called
\* exactly when the resolved source differs from the resolved <out>/<label>;
\* when both coincide, finalization copies nothing and leaves the tree as it was.
C10_CopyIffResolvedPathsDiffer ==
    script = "food101" =>
        /\ copied \subseteq finDone
        /\ \A label \in finDone : label \in copied <=> ~Coincides(label)
        /\ (finDone = Labels /\ \A label \in Labels : Coincides(label)) =>
              (copied = {} /\ dirs = finStart)

\* a successful run whose pair was unpacked right at <out>/images, <out>/meta
C10_Witness ==
    /\ pc = "exited" /\ outcome = "done" /\ script = "food101"
    /\ finDone = Labels /\ copied = {}
    /\ Len(extracted) > 0

\* a run where images was a symlink to <out>/images: only meta is copied
C10_WitnessLink ==
    /\ outcome = "done" /\ copied = {"meta"} /\ links # {}

\* a run where copytree found <out>/images in its way
C10_WitnessCrash ==
    /\ outcome = "crash" /\ copied = {"images"} /\ finDone = {"images"}

=============================================================================
